---- MODULE Spec2Model ----
(***************************************************************************)
(* Model of the schema-resolution pipeline of pkg/codegen: the filter      *)
(* engine (filter.go) and the component pruner with its reference          *)
(* collector (prune.go).                                                   *)
(*                                                                         *)
(* The document model is the libopenapi high-level model as the code reads *)
(* it: ordered maps are sequences of [name, value] entries in insertion    *)
(* order, a nil pointer is an empty optional (a sequence of length 0), and *)
(* a $ref is a record naming the component kind, the component key and,    *)
(* for a reference into a schema property, the property.                   *)
(***************************************************************************)
EXTENDS Integers, Sequences, FiniteSets, TLC

VARIABLES
    doc,              \* the mutable v3 model (paths, components)
    doc0,             \* the model as it was handed to the stage that is running
    cfg,              \* the FilterConfig
    pc,               \* position in the run
    iteration,        \* pruneSchema: the loop counter
    countRemoved,     \* pruneSchema: what the last removeOrphanedComponents returned
    result,           \* what the running stage has returned, NotReturned until it does
    runs,             \* how many times pruneSchema has been entered
    docAtNil,         \* the model at the moment pruneSchema first returned nil
    resolvedKeepsRef, \* library: does a schema resolved through a $ref report that $ref
    deleteEndsRange,  \* library: does deleting the current pair end a FromOldest() range
    elements,         \* generateUnion: the member list of the anyOf/oneOf
    discriminator,    \* generateUnion: the declared discriminator, None when nil
    options           \* generateUnion: ParseOptions, its path and the types added to it

vars == <<doc, doc0, cfg, pc, iteration, countRemoved, result, runs,
          docAtNil, resolvedKeepsRef, deleteEndsRange, elements, discriminator, options>>

(* what generateUnion reads and writes, and what it does not *)
unionVars == <<elements, discriminator, options>>

documentVars == <<doc, doc0, cfg, iteration, countRemoved, runs, docAtNil,
                  resolvedKeepsRef, deleteEndsRange>>

----------------------------------------------------------------------------
(* Bounds of the model *)

NSchemas == 3
MaxRuns == 2
ChainLen == 1000

(* prune.go:45 *)
maxIterations == 1000

----------------------------------------------------------------------------
(* References *)

NoRef == [kind |-> "", name |-> 0, prop |-> ""]

ComponentRef(kind, key) == [kind |-> kind, name |-> key, prop |-> ""]

PropertyRef(key, prop) == [kind |-> "schemas", name |-> key, prop |-> prop]

(* Optionals: a nil pointer is <<>>, a set pointer is <<v>> *)
None == <<>>

Some(v) == <<v>>

(* the elements of a list *)
Range(seq) == {seq[i] : i \in DOMAIN seq}

----------------------------------------------------------------------------
(* Schemas.  A schema proxy is [ref, schema]: with a $ref its schema is    *)
(* the resolved target, otherwise the inline schema.                       *)

NilSchema == [nil |-> TRUE]

EmptySchema ==
    [ref |-> NoRef, props |-> <<>>, required |-> {}, items |-> None,
     addl |-> None, allOf |-> <<>>, oneOf |-> <<>>, anyOf |-> <<>>, not |-> None]

RefProxy(r) == [ref |-> r, schema |-> NilSchema]

InlineProxy(s) == [ref |-> NoRef, schema |-> s]

(* The definitions of the named schemas of a document are its table     *)
(* schemaDefs, keyed 1..Len(schemaDefs), followed by d.chain schemas     *)
(* that are not written out: each is an object whose one property, x,   *)
(* is a $ref to the schema with the key before its own.                  *)
ChainLink(k) ==
    InlineProxy(IF k = 1 THEN EmptySchema
                ELSE [EmptySchema EXCEPT
                         !.props = <<[name |-> "x",
                                      value |-> RefProxy(ComponentRef("schemas", k - 1))]>>,
                         !.required = {"x"}])

Defined(d, k) == k \in 1..(Len(d.schemaDefs) + d.chain)

SchemaDef(d, k) == IF k <= Len(d.schemaDefs) THEN d.schemaDefs[k] ELSE ChainLink(k)

RECURSIVE LookupEntry(_, _, _)
LookupEntry(entries, key, i) ==
    IF i > Len(entries) THEN None
    ELSE IF entries[i].name = key THEN Some(entries[i].value)
    ELSE LookupEntry(entries, key, i + 1)

(* The schema a proxy yields: SchemaProxy.Schema().  The resolved target  *)
(* comes from the document's index, which pruning never touches, so a     *)
(* proxy keeps resolving after its target's key has left the components.  *)
RECURSIVE SchemaOf(_, _)

(* the reference a resolved schema reports as its own *)
Resolved(schema, r) ==
    IF schema # NilSchema /\ resolvedKeepsRef THEN [schema EXCEPT !.ref = r] ELSE schema

(* the schema of property prop of schema own *)
ForProperty(d, hit) == IF hit = None THEN NilSchema ELSE SchemaOf(d, hit[1])

PropertySchema(d, own, prop) ==
    IF own = NilSchema THEN NilSchema
    ELSE ForProperty(d, LookupEntry(own.props, prop, 1))

Resolve(d, r) ==
    IF r.kind # "schemas" \/ ~Defined(d, r.name) THEN NilSchema
    ELSE IF r.prop = "" THEN Resolved(SchemaOf(d, SchemaDef(d, r.name)), r)
    ELSE Resolved(PropertySchema(d, SchemaOf(d, SchemaDef(d, r.name)), r.prop), r)

SchemaOf(d, proxy) ==
    IF proxy.ref = NoRef THEN proxy.schema ELSE Resolve(d, proxy.ref)

----------------------------------------------------------------------------
(* prune.go: the reference collector.  refSet is the map[string]bool.     *)

(* strings.Contains(ref, "/properties/"), then parts[0] of the split *)
addParentSchemaRef(ref, refSet) ==
    IF ref.prop # "" THEN refSet \cup {ComponentRef(ref.kind, ref.name)} ELSE refSet

(* TLC evaluates an operator's arguments only when they are used, which  *)
(* nests the evaluation of a long walk as deep as the walk is long.      *)
(* Then(refSet, Walk) is Walk(refSet) with refSet evaluated first: the   *)
(* test is TRUE of every set.                                            *)
Then(refSet, Walk(_)) == IF IsFiniteSet(refSet) THEN Walk(refSet) ELSE refSet

(* "for _, e := range seq": Visit(d, e, refSet) on seq[lo], ..., seq[hi]  *)
(* in this order, each on the set the one before has left.  The range is *)
(* cut in two and the first half is finished before the second begins.   *)
RECURSIVE ForRange(_, _, _, _, _, _)
ForRange(Visit(_, _, _), d, seq, lo, hi, refSet) ==
    IF lo > hi THEN refSet
    ELSE IF lo = hi THEN Visit(d, seq[lo], refSet)
    ELSE Then(ForRange(Visit, d, seq, lo, (lo + hi) \div 2, refSet),
              LAMBDA first : ForRange(Visit, d, seq, ((lo + hi) \div 2) + 1, hi, first))

ForEach(Visit(_, _, _), d, seq, refSet) == ForRange(Visit, d, seq, 1, Len(seq), refSet)

(* refSet[ref] = true when ref != "" *)
Record(ref, refSet) == IF ref # NoRef THEN refSet \cup {ref} ELSE refSet

(* ref != "" && refSet[ref] *)
Recorded(ref, refSet) == ref # NoRef /\ ref \in refSet

RECURSIVE collectSchemaRefs(_, _, _)

(* prune.go:253-269, the body of the loop over schema.Properties *)
collectProperty(d, entry, refSet) ==
    IF Recorded(entry.value.ref, refSet) THEN refSet
    ELSE collectSchemaRefs(d, SchemaOf(d, entry.value),
                           addParentSchemaRef(entry.value.ref, Record(entry.value.ref, refSet)))

(* prune.go:299-311, the body of the loop over allOf, oneOf, anyOf, {not} *)
collectGroupMember(d, sp, refSet) ==
    IF Recorded(sp.ref, refSet) THEN refSet
    ELSE collectSchemaRefs(d, SchemaOf(d, sp), Record(sp.ref, refSet))

(* prune.go:297-312 *)
collectGroups(d, schema, refSet) ==
    ForEach(collectGroupMember, d,
            schema.allOf \o schema.oneOf \o schema.anyOf \o schema.not, refSet)

(* prune.go:273 and 286: the member is there and is a schema (IsA) *)
Present(slot) == slot # None

(* prune.go:274-282 and 287-294 past the "return": record the member's   *)
(* $ref and walk its schema                                               *)
collectMember(d, slot, refSet) ==
    IF ~Present(slot) THEN refSet
    ELSE collectSchemaRefs(d, SchemaOf(d, slot[1]), Record(slot[1].ref, refSet))

(* prune.go:285-312: additionalProperties, then the groups; a recorded   *)
(* additionalProperties $ref returns                                      *)
collectFromAdditionalProperties(d, schema, refSet) ==
    IF Present(schema.addl) /\ Recorded(schema.addl[1].ref, refSet) THEN refSet
    ELSE Then(collectMember(d, schema.addl, refSet),
              LAMBDA r : collectGroups(d, schema, r))

(* prune.go:272-312: array items, then the rest; a recorded items $ref   *)
(* returns                                                                *)
collectFromItems(d, schema, refSet) ==
    IF Present(schema.items) /\ Recorded(schema.items[1].ref, refSet) THEN refSet
    ELSE Then(collectMember(d, schema.items, refSet),
              LAMBDA r : collectFromAdditionalProperties(d, schema, r))

(* prune.go:235-316 *)
collectSchemaRefs(d, schema, refSet) ==
    IF schema = NilSchema THEN refSet
    ELSE IF Recorded(schema.ref, refSet) THEN refSet
    ELSE Then(ForEach(collectProperty, d, schema.props,
                      addParentSchemaRef(schema.ref, Record(schema.ref, refSet))),
              LAMBDA r : collectFromItems(d, schema, r))

(* prune.go:394-405; the caller's nil proxy is the empty optional *)
collectSchemaProxy(d, schemaProxy, refSet) ==
    collectSchemaRefs(d, SchemaOf(d, schemaProxy), Record(schemaProxy.ref, refSet))

(* prune.go:328-392, the cases *v3high.Parameter and *v3high.Header: the  *)
(* object's own $ref, its Schema, then the schemas of its Content.        *)
collectRefFromParameter(d, p, refSet) ==
    Then(ForEach(collectSchemaProxy, d, p.schema, Record(p.ref, refSet)),
         LAMBDA r : ForEach(collectSchemaProxy, d, p.content, r))

collectRefFromHeader(d, h, refSet) ==
    Then(ForEach(collectSchemaProxy, d, h.schema, Record(h.ref, refSet)),
         LAMBDA r : ForEach(collectSchemaProxy, d, h.content, r))

(* the case *v3high.RequestBody *)
collectRefFromRequestBody(d, b, refSet) ==
    ForEach(collectSchemaProxy, d, b.content, Record(b.ref, refSet))

(* the case *v3high.Response *)
collectRefFromResponse(d, r, refSet) ==
    Then(ForEach(collectSchemaProxy, d, r.content, Record(r.ref, refSet)),
         LAMBDA r1 : ForEach(collectRefFromHeader, d, r.headers, r1))

(* prune.go:158-166: the default response, then the ones by status code *)
collectOperationResponses(d, responses, refSet) ==
    ForEach(collectRefFromResponse, d, responses.default \o responses.codes, refSet)

(* prune.go:147-166, one operation: request body, parameters, responses *)
collectOperation(d, entry, refSet) ==
    Then(ForEach(collectRefFromRequestBody, d, entry.op.requestBody, refSet),
         LAMBDA r1 :
           Then(ForEach(collectRefFromParameter, d, entry.op.parameters, r1),
                LAMBDA r2 : ForEach(collectOperationResponses, d, entry.op.responses, r2)))

(* prune.go:140-168, one path item: its parameters, then its operations *)
collectPathItem(d, pathItem, refSet) ==
    Then(ForEach(collectRefFromParameter, d, pathItem.parameters, refSet),
         LAMBDA r : ForEach(collectOperation, d, pathItem.ops, r))

(* prune.go:196-206, one entry of Components.Schemas *)
collectComponentSchema(d, key, refSet) ==
    collectSchemaRefs(d, SchemaOf(d, SchemaDef(d, key)),
                      Record(SchemaDef(d, key).ref, refSet))

(* Components.X.FromOldest(): the values of the keys still in the map *)
Values(keys, defs) == [i \in 1..Len(keys) |-> defs[keys[i]]]

(* prune.go:173-208, the walk over the components *)
collectComponents(d, refSet) ==
    Then(ForEach(collectRefFromParameter, d, Values(d.parameters, d.parameterDefs), refSet),
      LAMBDA r1 :
        Then(ForEach(collectRefFromRequestBody, d,
                     Values(d.requestBodies, d.requestBodyDefs), r1),
          LAMBDA r2 :
            Then(ForEach(collectRefFromResponse, d, Values(d.responses, d.responseDefs), r2),
              LAMBDA r3 :
                Then(ForEach(collectRefFromHeader, d, Values(d.headers, d.headerDefs), r3),
                  LAMBDA r4 : ForEach(collectComponentSchema, d, d.schemas, r4)))))

(* prune.go:132-217 *)
(* prune.go:210-216: the keys of refSet, sorted *)
sortedKeys(refSet) == IF Cardinality(refSet) >= 0 THEN refSet ELSE {}

findOperationRefs(d) ==
    IF ~d.hasPaths THEN {}
    ELSE IF ~d.hasComponents THEN sortedKeys(ForEach(collectPathItem, d, d.paths, {}))
    ELSE sortedKeys(Then(ForEach(collectPathItem, d, d.paths, {}),
                         LAMBDA r : collectComponents(d, r)))

----------------------------------------------------------------------------
(* prune.go:70-130 *)

(* one of the five blocks: the keys of a category whose reference is in refs *)
KeepReferenced(kind, keys, refs) ==
    SelectSeq(keys, LAMBDA key : ComponentRef(kind, key) \in refs)

(* the parameters of the path items go with the orphaned components *)
removeWithPathParameters(d, refs) ==
    IF ~d.hasComponents THEN d
    ELSE [d EXCEPT !.schemas = KeepReferenced("schemas", d.schemas, refs),
                   !.parameters = KeepReferenced("parameters", d.parameters, refs),
                   !.requestBodies = KeepReferenced("requestBodies", d.requestBodies, refs),
                   !.responses = KeepReferenced("responses", d.responses, refs),
                   !.headers = KeepReferenced("headers", d.headers, refs),
                   !.paths = [i \in DOMAIN d.paths |-> [d.paths[i] EXCEPT !.parameters = <<>>]]]

removeOrphanedComponents(d, refs) ==
    IF ~d.hasComponents THEN d
    ELSE [d EXCEPT !.schemas = KeepReferenced("schemas", d.schemas, refs),
                   !.parameters = KeepReferenced("parameters", d.parameters, refs),
                   !.requestBodies = KeepReferenced("requestBodies", d.requestBodies, refs),
                   !.responses = KeepReferenced("responses", d.responses, refs),
                   !.headers = KeepReferenced("headers", d.headers, refs)]

(* the number of named components of the five pruned categories *)
ComponentCount(d) ==
    Len(d.schemas) + Len(d.parameters) + Len(d.requestBodies) + Len(d.responses)
    + Len(d.headers)

(* only the webhooks are cleared *)
dropWebhooksOnly(d) == [d EXCEPT !.webhooks = {}]

(* prune.go:32-41 *)
dropUngenerated(d) ==
    LET d1 == [d EXCEPT !.webhooks = {}]
    IN  IF ~d.hasComponents THEN d1
        ELSE [d1 EXCEPT !.securitySchemes = {}, !.callbacks = {}, !.examples = {},
                        !.links = {}]

(* the loop is never left by its exit test *)
neverDonePruning(removed) == FALSE

(* the loop left as soon as a pass removes at most one component *)
donePruningAtMostOne(removed) == removed < 2

(* prune.go:63, the loop's exit test *)
donePruning(removed) == removed < 1

(* what pruneSchema returns: an error value, or nil; nothing else *)
NotReturned == <<>>

Nil == <<"nil">>

Errorf(format, arg) == <<"error", format, arg>>

(* the cap taken as one pass *)
overCapOfOne(n) == n > 1

(* prune.go:50 *)
overCap(n) == n > maxIterations

(* prune.go:51 *)
capExceeded(cap) ==
    Errorf("pruning exceeded maximum iterations (%d), possible infinite loop", cap)

----------------------------------------------------------------------------
(* The documents the runs start from *)

SchemaRef(key) == ComponentRef("schemas", key)

(* an optional $ref to a schema: target 0 is "no such member" *)
OptRef(t) == IF t = 0 THEN None ELSE Some(RefProxy(SchemaRef(t)))

SeqRef(t) == IF t = 0 THEN <<>> ELSE <<RefProxy(SchemaRef(t))>>

PropsRef(name, t) == IF t = 0 THEN <<>> ELSE <<[name |-> name, value |-> RefProxy(SchemaRef(t))]>>

(* an object: property x is a $ref to a, property y an inline array of b *)
ObjectSchema(a, b) ==
    [EmptySchema EXCEPT
        !.props = PropsRef("x", a) \o
                  (IF b = 0 THEN <<>>
                   ELSE <<[name |-> "y",
                           value |-> InlineProxy([EmptySchema EXCEPT !.items = OptRef(b)])]>>),
        !.required = IF a = 0 THEN {} ELSE {"x"}]

(* an array of a that is also allOf [b] *)
ArraySchema(a, b) == [EmptySchema EXCEPT !.items = OptRef(a), !.allOf = SeqRef(b)]

(* a map of a with oneOf [b] *)
MapSchema(a, b) == [EmptySchema EXCEPT !.addl = OptRef(a), !.oneOf = SeqRef(b)]

(* the schema with key k takes its form from k *)
SchemaForm(k, a, b) ==
    InlineProxy(CASE k % 3 = 1 -> ObjectSchema(a, b)
                  [] k % 3 = 2 -> ArraySchema(a, b)
                  [] OTHER     -> MapSchema(a, b))

Keys == 1..NSchemas

Succ(k) == (k % NSchemas) + 1

(* every choice of the two members of every schema: the first is any    *)
(* schema or none, the second is the next schema or none                 *)
SchemaTables ==
    { [k \in Keys |-> SchemaForm(k, ab[k][1], ab[k][2])] :
        ab \in { f \in [Keys -> (0..NSchemas) \X (0..NSchemas)] :
                   \A k \in Keys : f[k][2] \in {0, Succ(k)} } }

LeafTable == [k \in Keys |-> InlineProxy(EmptySchema)]

KeySeq == [k \in Keys |-> k]

Parameter(schema, content) == [ref |-> NoRef, schema |-> schema, content |-> content]

Header(schema, content) == [ref |-> NoRef, schema |-> schema, content |-> content]

RequestBody(content) == [ref |-> NoRef, content |-> content]

Response(content, headers) == [ref |-> NoRef, content |-> content, headers |-> headers]

(* a use of a named component: the object carries the $ref and the      *)
(* resolved content                                                      *)
Use(kind, key, def) == [def EXCEPT !.ref = ComponentRef(kind, key)]

Operation(tags, id, body, params, responses) ==
    [tags |-> tags, operationId |-> id, requestBody |-> body, parameters |-> params,
     responses |-> responses]

Responses(default, codes) == Some([default |-> default, codes |-> codes])

PathItem(path, params, ops) == [path |-> path, parameters |-> params, ops |-> ops]

EmptyDoc ==
    [hasPaths |-> TRUE, paths |-> <<>>, hasComponents |-> TRUE,
     schemas |-> <<>>, schemaDefs |-> <<>>, chain |-> 0,
     parameters |-> <<>>, parameterDefs |-> <<>>,
     requestBodies |-> <<>>, requestBodyDefs |-> <<>>,
     responses |-> <<>>, responseDefs |-> <<>>,
     headers |-> <<>>, headerDefs |-> <<>>,
     securitySchemes |-> {}, callbacks |-> {}, examples |-> {}, links |-> {},
     webhooks |-> {}]

(* one path, one operation: a parameter of schema p, a response of schema r *)
GraphDoc(table, p, r) ==
    [EmptyDoc EXCEPT
        !.schemas = KeySeq, !.schemaDefs = table,
        !.paths = <<PathItem("/cat", <<>>,
                     <<[method |-> "get",
                        op |-> Operation(<<"cat">>, "getCat", None,
                                         IF p = 0 THEN <<>> ELSE <<Parameter(OptRef(p), <<>>)>>,
                                         Responses(None, <<Response(SeqRef(r), <<>>)>>))]>>)>>]

GraphDocs == { GraphDoc(t, p, r) : t \in SchemaTables, p \in {0, 1, NSchemas}, r \in {0, 2} }

(* one component of each other kind, used or not by the one operation *)
KindDoc(ps, bc, rh, hs, usePathParam, useBody, useDefault, inlineHeader, extras) ==
    LET pDef == IF ps THEN Parameter(OptRef(1), <<>>) ELSE Parameter(None, SeqRef(1))
        bDef == RequestBody(IF bc THEN SeqRef(2) ELSE <<InlineProxy(EmptySchema)>>)
        hDef == Header(IF hs THEN OptRef(1) ELSE None, <<>>)
        hUse == Use("headers", 1, hDef)
        rDef == Response(SeqRef(NSchemas), IF rh THEN <<hUse>> ELSE <<>>)
    IN  [EmptyDoc EXCEPT
            !.schemas = KeySeq, !.schemaDefs = LeafTable,
            !.parameters = <<1>>, !.parameterDefs = <<pDef>>,
            !.requestBodies = <<1>>, !.requestBodyDefs = <<bDef>>,
            !.responses = <<1>>, !.responseDefs = <<rDef>>,
            !.headers = <<1>>, !.headerDefs = <<hDef>>,
            !.securitySchemes = extras, !.callbacks = extras, !.examples = extras,
            !.links = extras, !.webhooks = extras,
            !.paths = <<PathItem("/cat",
                         IF usePathParam THEN <<Use("parameters", 1, pDef)>> ELSE <<>>,
                         <<[method |-> "post",
                            op |-> Operation(<<"cat">>, "addCat",
                                   IF useBody THEN Some(Use("requestBodies", 1, bDef)) ELSE None,
                                   <<>>,
                                   Responses(IF useDefault THEN Some(Use("responses", 1, rDef))
                                             ELSE None,
                                             <<Response(SeqRef(2),
                                                        IF inlineHeader THEN <<hUse>>
                                                        ELSE <<>>)>>))]>>)>>]

KindDocs ==
    { KindDoc(ps, bc, rh, hs, upp, ub, ud, ih, ex) :
        ps \in BOOLEAN, bc \in BOOLEAN, rh \in BOOLEAN, hs \in BOOLEAN,
        upp \in BOOLEAN, ub \in BOOLEAN, ud \in BOOLEAN, ih \in BOOLEAN,
        ex \in {{}, {1}} }

(* a document without paths, one whose parameter refers into property x *)
(* of schema 1, one without components, one whose operation has no       *)
(* responses                                                             *)
EdgeDocs ==
    { [GraphDoc(LeafTable, 1, 2) EXCEPT !.hasPaths = FALSE, !.paths = <<>>],
      [GraphDoc([LeafTable EXCEPT ![1] = InlineProxy(ObjectSchema(2, 0))], 0, 0) EXCEPT
          !.paths[1].parameters =
              <<Parameter(Some(RefProxy(PropertyRef(1, "x"))), <<>>)>>],
      [EmptyDoc EXCEPT !.hasComponents = FALSE,
                       !.paths = <<PathItem("/cat", <<>>, <<>>)>>],
      [GraphDoc(LeafTable, 1, 0) EXCEPT
          !.paths = <<PathItem("/cat", <<>>,
                       <<[method |-> "get",
                          op |-> Operation(<<>>, "getCat", None, <<>>, None)]>>)>>] }

PruneDocs == GraphDocs \cup KindDocs \cup EdgeDocs

NoFilter == [isNil |-> TRUE, v |-> <<>>]

----------------------------------------------------------------------------
(* pruneSchema, prune.go:25-68 *)

(* prune.go:25-45: BuildV3Model, the unconditional drops, iteration := 0 *)
PruneEnter ==
    /\ pc = "prune"
    /\ \E buildOk \in BOOLEAN :
         IF buildOk
         THEN /\ doc' = dropUngenerated(doc)
              /\ pc' = "loop"
              /\ result' = NotReturned
         ELSE /\ doc' = doc
              /\ pc' = "failed"
              /\ result' = Errorf("error building model: %w", 0)
    /\ iteration' = 0
    /\ countRemoved' = 0
    /\ runs' = runs + 1
    /\ doc0' = doc
    /\ UNCHANGED <<cfg, docAtNil, resolvedKeepsRef, deleteEndsRange>>
    /\ UNCHANGED unionVars

(* prune.go:48-67: one pass of the loop body *)
PruneIteration ==
    /\ pc = "loop"
    /\ iteration' = iteration + 1
    /\ IF overCap(iteration + 1)
       THEN /\ pc' = "error"
            /\ result' = capExceeded(maxIterations)
            /\ UNCHANGED <<doc, countRemoved, docAtNil>>
       ELSE \E refs \in {findOperationRefs(doc)} :
            \E pruned \in {removeOrphanedComponents(doc, refs)} :
                /\ doc' = pruned
                /\ countRemoved' = ComponentCount(doc) - ComponentCount(pruned)
                /\ IF donePruning(ComponentCount(doc) - ComponentCount(pruned))
                   THEN /\ pc' = "done"
                        /\ result' = Nil
                        /\ docAtNil' = IF runs = 1 THEN Some(pruned) ELSE docAtNil
                   ELSE /\ pc' = "loop"
                        /\ UNCHANGED <<result, docAtNil>>
    /\ UNCHANGED <<doc0, cfg, runs, resolvedKeepsRef, deleteEndsRange>>
    /\ UNCHANGED unionVars

(* pruneSchema is called again on the model it has pruned *)
PruneAgain ==
    /\ pc = "done"
    /\ runs < MaxRuns
    /\ pc' = "prune"
    /\ UNCHANGED <<doc, doc0, cfg, iteration, countRemoved, result, runs, docAtNil,
                   resolvedKeepsRef, deleteEndsRange>>
    /\ UNCHANGED unionVars

EmptyConfig ==
    [Include |-> [Paths |-> NoFilter, Tags |-> NoFilter, OperationIDs |-> NoFilter,
                  SchemaProperties |-> <<>>],
     Exclude |-> [Paths |-> NoFilter, Tags |-> NoFilter, OperationIDs |-> NoFilter,
                  SchemaProperties |-> <<>>]]

(* no union is being generated *)
NoUnion ==
    /\ elements = <<>>
    /\ discriminator = <<>>
    /\ options = [path |-> <<>>, reference |-> [kind |-> "", name |-> ""], types |-> <<>>]

Init ==
    /\ doc \in PruneDocs
    /\ doc0 = doc
    /\ cfg = EmptyConfig
    /\ pc = "prune"
    /\ iteration = 0
    /\ countRemoved = 0
    /\ result = NotReturned
    /\ runs = 0
    /\ docAtNil = None
    /\ resolvedKeepsRef \in BOOLEAN
    /\ deleteEndsRange = FALSE
    /\ NoUnion

Next == PruneEnter \/ PruneIteration \/ PruneAgain

Spec == Init /\ [][Next]_vars

(* a chain of n unused schemas, none written out: schema i has one      *)
(* property, a $ref to schema i - 1; the one operation refers to nothing *)
ChainDoc(n) ==
    [EmptyDoc EXCEPT
        !.schemas = [i \in 1..n |-> i],
        !.chain = n,
        !.paths = <<PathItem("/cat", <<>>,
                      <<[method |-> "get",
                         op |-> Operation(<<>>, "getCat", None, <<>>, None)]>>)>>]

InitChain ==
    /\ doc \in {ChainDoc(NSchemas), ChainDoc(ChainLen)}
    /\ doc0 = doc
    /\ cfg = EmptyConfig
    /\ pc = "prune"
    /\ iteration = 0
    /\ countRemoved = 0
    /\ result = NotReturned
    /\ runs = 0
    /\ docAtNil = None
    /\ resolvedKeepsRef \in BOOLEAN
    /\ deleteEndsRange = FALSE
    /\ NoUnion

SpecChain == InitChain /\ [][Next]_vars

(* the documents with a component of every kind, with or without       *)
(* entries in the categories no code is generated for                    *)
InitKinds ==
    /\ doc \in KindDocs \cup EdgeDocs
    /\ doc0 = doc
    /\ cfg = EmptyConfig
    /\ pc = "prune"
    /\ iteration = 0
    /\ countRemoved = 0
    /\ result = NotReturned
    /\ runs = 0
    /\ docAtNil = None
    /\ resolvedKeepsRef \in BOOLEAN
    /\ deleteEndsRange = FALSE
    /\ NoUnion

SpecKinds == InitKinds /\ [][Next]_vars

(* schemas in cycles: every schema refers to itself or to nothing in its *)
(* first member, to the next schema or to nothing in its second, so the  *)
(* tables hold self-references, rings of every length up to NSchemas and *)
(* rings with self-references on them                                    *)
CycleTables ==
    { [k \in Keys |-> SchemaForm(k, IF own[k] THEN k ELSE 0, IF next[k] THEN Succ(k) ELSE 0)] :
        own \in [Keys -> BOOLEAN], next \in [Keys -> BOOLEAN] }

CycleDocs ==
    { GraphDoc(t, p, r) : t \in CycleTables, p \in {0, 1, NSchemas}, r \in {0, 2} }
    \cup {ChainDoc(NSchemas)}

InitCycles ==
    /\ doc \in CycleDocs
    /\ doc0 = doc
    /\ cfg = EmptyConfig
    /\ pc = "prune"
    /\ iteration = 0
    /\ countRemoved = 0
    /\ result = NotReturned
    /\ runs = 0
    /\ docAtNil = None
    /\ resolvedKeepsRef \in BOOLEAN
    /\ deleteEndsRange = FALSE
    /\ NoUnion

(* Where a $ref into property x of schema 1 can stand: on the schema of  *)
(* a parameter, a request body, a response or a header of the operation, *)
(* or inside schema 3, which the response of the operation refers to, as *)
(* a property, the array items, the additionalProperties, or a member of *)
(* allOf, oneOf, anyOf or not                                            *)
Positions ==
    {"parameter", "body", "response", "header", "property", "items", "addl", "allOf",
     "oneOf", "anyOf", "not"}

(* schema 3 with the $ref at the position *)
Holder(pos, proxy) ==
    CASE pos = "property" -> [EmptySchema EXCEPT !.props = <<[name |-> "p", value |-> proxy]>>]
      [] pos = "items"    -> [EmptySchema EXCEPT !.items = Some(proxy)]
      [] pos = "addl"     -> [EmptySchema EXCEPT !.addl = Some(proxy)]
      [] pos = "allOf"    -> [EmptySchema EXCEPT !.allOf = <<proxy>>]
      [] pos = "oneOf"    -> [EmptySchema EXCEPT !.oneOf = <<proxy>>]
      [] pos = "anyOf"    -> [EmptySchema EXCEPT !.anyOf = <<proxy>>]
      [] pos = "not"      -> [EmptySchema EXCEPT !.not = Some(proxy)]
      [] OTHER            -> EmptySchema

(* schema 1 is an object whose property x is a $ref to schema 2 or an    *)
(* inline schema; direct tells whether the operation also refers to      *)
(* schema 1 itself                                                       *)
PropertyRefDoc(pos, inlineX, direct) ==
    [EmptyDoc EXCEPT
        !.schemas = KeySeq,
        !.schemaDefs =
            [k \in Keys |->
                CASE k = 1 -> InlineProxy(
                                  IF inlineX
                                  THEN [EmptySchema EXCEPT
                                           !.props = <<[name |-> "x",
                                                        value |-> InlineProxy(EmptySchema)]>>]
                                  ELSE ObjectSchema(2, 0))
                  [] k = 3 -> InlineProxy(Holder(pos, RefProxy(PropertyRef(1, "x"))))
                  [] OTHER -> InlineProxy(EmptySchema)],
        !.paths =
            <<PathItem("/cat", <<>>,
                <<[method |-> "get",
                   op |-> Operation(<<"cat">>, "getCat",
                            IF pos = "body"
                            THEN Some(RequestBody(<<RefProxy(PropertyRef(1, "x"))>>)) ELSE None,
                            (IF pos = "parameter"
                             THEN <<Parameter(Some(RefProxy(PropertyRef(1, "x"))), <<>>)>>
                             ELSE <<>>)
                            \o (IF direct THEN <<Parameter(OptRef(1), <<>>)>> ELSE <<>>),
                            Responses(None,
                                <<Response(
                                    IF pos = "response" THEN <<RefProxy(PropertyRef(1, "x"))>>
                                    ELSE SeqRef(3),
                                    IF pos = "header"
                                    THEN <<Header(Some(RefProxy(PropertyRef(1, "x"))), <<>>)>>
                                    ELSE <<>>)>>))]>>)>>]

PropertyRefDocs ==
    { PropertyRefDoc(pos, inlineX, direct) :
        pos \in Positions, inlineX \in BOOLEAN, direct \in BOOLEAN }

InitPropertyRefs ==
    /\ doc \in PropertyRefDocs
    /\ doc0 = doc
    /\ cfg = EmptyConfig
    /\ pc = "prune"
    /\ iteration = 0
    /\ countRemoved = 0
    /\ result = NotReturned
    /\ runs = 0
    /\ docAtNil = None
    /\ resolvedKeepsRef \in BOOLEAN
    /\ deleteEndsRange = FALSE
    /\ NoUnion

SpecPropertyRefs == InitPropertyRefs /\ [][Next]_vars

(* prune.go:48-49: the loop begins its next pass, iteration++ *)
NextPass == pc = "loop" /\ iteration' = iteration + 1

(* pruneSchema is straight-line code without suspension points: once     *)
(* called it builds the model, and in the loop it begins the next pass   *)
SpecTerminates ==
    InitCycles /\ [][Next]_vars /\ WF_vars(PruneEnter) /\ WF_iteration(NextPass)

----------------------------------------------------------------------------
(* filterOutDocument, filter.go *)

(* a non-nil slice *)
List(v) == [isNil |-> FALSE, v |-> v]

(* slices.Contains *)
Contains(list, x) == \E i \in DOMAIN list : list[i] = x

(* FilterParamsConfig.isEmpty: every axis has length zero *)
isEmpty(params) ==
    /\ Len(params.Paths.v) = 0
    /\ Len(params.Tags.v) = 0
    /\ Len(params.OperationIDs.v) = 0
    /\ DOMAIN params.SchemaProperties = {}

(* no early return at all *)
neverReturnsEarly(c) == FALSE

(* filter.go:12 *)
returnsEarly(c) == isEmpty(c.Include) /\ isEmpty(c.Exclude)

(* filter.go:34 and filter.go:39: the path item is deleted *)
pathDeleted(c, path) ==
    \/ ~c.Include.Paths.isNil /\ ~Contains(c.Include.Paths.v, path)
    \/ ~c.Exclude.Paths.isNil /\ Contains(c.Exclude.Paths.v, path)

(* filter.go:48-53 *)
excludedByTag(c, op) == \E i \in DOMAIN op.tags : Contains(c.Exclude.Tags.v, op.tags[i])

(* filter.go:55-67 *)
missesIncludeTags(c, op) ==
    /\ Len(c.Include.Tags.v) > 0
    /\ ~\E i \in DOMAIN op.tags : Contains(c.Include.Tags.v, op.tags[i])

(* filter.go:45-75: the value of remove when the switch is reached *)
remove(c, op) ==
    \/ excludedByTag(c, op)
    \/ missesIncludeTags(c, op)
    \/ ~c.Exclude.OperationIDs.isNil /\ Contains(c.Exclude.OperationIDs.v, op.operationId)
    \/ ~c.Include.OperationIDs.isNil /\ ~Contains(c.Include.OperationIDs.v, op.operationId)

(* every method of the path item set to nil *)
detachEveryMethod(ops, method) == <<>>

(* filter.go:77-96: the field of the method set to nil *)
detach(ops, method) == SelectSeq(ops, LAMBDA e : e.method # method)

(* filter.go:44-97: the range over GetOperations(), a map built from the *)
(* path item before the first detach                                     *)
RECURSIVE rangeOperations(_, _, _, _)
rangeOperations(c, operations, i, ops) ==
    IF i > Len(operations) THEN ops
    ELSE rangeOperations(c, operations, i + 1,
                         IF remove(c, operations[i].op)
                         THEN detach(ops, operations[i].method) ELSE ops)

filterPathItem(c, pathItem) ==
    [pathItem EXCEPT !.ops = rangeOperations(c, pathItem.ops, 1, pathItem.ops)]

(* filter.go:33-98: the range over PathItems, which deletes from the map *)
(* it ranges over                                                        *)
RECURSIVE rangePathItems(_, _, _)
rangePathItems(c, pathItems, ends) ==
    IF pathItems = <<>> THEN <<>>
    ELSE IF pathDeleted(c, Head(pathItems).path)
         THEN IF ends THEN Tail(pathItems) ELSE rangePathItems(c, Tail(pathItems), ends)
         ELSE <<filterPathItem(c, Head(pathItems))>> \o rangePathItems(c, Tail(pathItems), ends)

(* filter.go:32-99 *)
filterOperations(d, c, ends) == [d EXCEPT !.paths = rangePathItems(c, d.paths, ends)]

(* filter.go:106-117 *)
includeMode(c) == DOMAIN c.Include.SchemaProperties # {}

excludeMode(c) == DOMAIN c.Exclude.SchemaProperties # {}

propsFilter(c) ==
    IF includeMode(c) THEN c.Include.SchemaProperties ELSE c.Exclude.SchemaProperties

(* the loop body without its test of schema.Required *)
propertyKeptUnlessListed(c, schema, filteredProps, propName) ==
    /\ ~(includeMode(c) /\ ~Contains(filteredProps, propName))
    /\ ~(excludeMode(c) /\ Contains(filteredProps, propName))

(* filter.go:135-147: the property is not deleted *)
propertyKept(c, schema, filteredProps, propName) ==
    \/ propName \in schema.required
    \/ /\ ~(includeMode(c) /\ ~Contains(filteredProps, propName))
       /\ ~(excludeMode(c) /\ Contains(filteredProps, propName))

(* filter.go:125-148, for a schema defined in place *)
filterSchemaProperties(c, proxy, filteredProps) ==
    IF proxy.ref # NoRef \/ proxy.schema = NilSchema THEN proxy
    ELSE [proxy EXCEPT !.schema.props =
             SelectSeq(proxy.schema.props,
                       LAMBDA e : propertyKept(c, proxy.schema, filteredProps, e.name))]

(* filter.go:101-150, on the schemas of the table *)
filterComponentSchemaProperties(d, c) ==
    IF ~d.hasComponents \/ ~(includeMode(c) \/ excludeMode(c)) THEN d
    ELSE [d EXCEPT !.schemaDefs =
             [k \in DOMAIN d.schemaDefs |->
                 IF k \in Range(d.schemas) /\ k \in DOMAIN propsFilter(c)
                 THEN filterSchemaProperties(c, d.schemaDefs[k], propsFilter(c)[k])
                 ELSE d.schemaDefs[k]]]

(* filterOutDocument returns the document and no error *)
DocAndNil == <<"doc", "nil">>

(* filter.go:11-30 *)
FilterOutDocument ==
    /\ pc = "filter"
    /\ doc0' = doc
    /\ IF returnsEarly(cfg)
       THEN /\ doc' = doc
            /\ pc' = "filtered"
            /\ result' = DocAndNil
       ELSE \E buildOk \in BOOLEAN, reloadOk \in BOOLEAN :
              IF ~buildOk
              THEN /\ doc' = doc
                   /\ pc' = "failed"
                   /\ result' = Errorf("errs[0]", 0)
              ELSE IF ~doc.hasPaths
              THEN /\ doc' = doc
                   /\ pc' = "panicked"
                   /\ result' = NotReturned
              ELSE /\ doc' = filterComponentSchemaProperties(
                                 filterOperations(doc, cfg, deleteEndsRange), cfg)
                   /\ IF reloadOk
                      THEN pc' = "filtered" /\ result' = DocAndNil
                      ELSE pc' = "failed"
                           /\ result' = Errorf("error reloading document: %w", 0)
    /\ UNCHANGED <<cfg, iteration, countRemoved, runs, docAtNil, resolvedKeepsRef,
                   deleteEndsRange>>
    /\ UNCHANGED unionVars

(* three paths; the operations carry the tags a, a and b, none, b, c *)
FilterDoc ==
    [EmptyDoc EXCEPT
        !.schemas = KeySeq,
        !.schemaDefs = [k \in Keys |-> IF k = 1 THEN InlineProxy(ObjectSchema(2, NSchemas))
                                       ELSE InlineProxy(EmptySchema)],
        !.paths =
          <<PathItem("/cat", <<>>,
              <<[method |-> "get",
                 op |-> Operation(<<"a">>, "getCat", None, <<>>,
                                  Responses(None, <<Response(SeqRef(1), <<>>)>>))],
                [method |-> "post",
                 op |-> Operation(<<"a", "b">>, "addCat", None, <<>>, None)]>>),
            PathItem("/dog", <<Parameter(OptRef(2), <<>>)>>,
              <<[method |-> "get", op |-> Operation(<<>>, "getDog", None, <<>>, None)],
                [method |-> "delete",
                 op |-> Operation(<<"b">>, "delDog", None, <<>>, None)]>>),
            PathItem("/emu", <<>>,
              <<[method |-> "get",
                 op |-> Operation(<<"c">>, "getEmu", None, <<>>, None)]>>)>>]

FilterDocs ==
    { FilterDoc,
      [FilterDoc EXCEPT !.hasPaths = FALSE, !.paths = <<>>],
      [FilterDoc EXCEPT !.hasComponents = FALSE, !.schemas = <<>>, !.schemaDefs = <<>>] }

PathLists == {NoFilter, List(<<>>), List(<<"/cat">>), List(<<"/cat", "/emu">>)}

TagLists == {NoFilter, List(<<>>), List(<<"a">>), List(<<"b">>)}

OperationIDLists == {NoFilter, List(<<>>), List(<<"getCat">>), List(<<"addCat", "getDog">>)}

IncludeProperties == {<<>>, 1 :> <<"x">>}

ExcludeProperties == {<<>>, 1 :> <<"x", "y">>}

FilterParamsConfigs(propertyMaps) ==
    [Paths : PathLists, Tags : TagLists, OperationIDs : OperationIDLists,
     SchemaProperties : propertyMaps]

FilterConfigs ==
    [Include : FilterParamsConfigs(IncludeProperties),
     Exclude : FilterParamsConfigs(ExcludeProperties)]

InitFilter ==
    /\ doc \in FilterDocs
    /\ doc0 = doc
    /\ cfg \in FilterConfigs
    /\ pc = "filter"
    /\ iteration = 0
    /\ countRemoved = 0
    /\ result = NotReturned
    /\ runs = 0
    /\ docAtNil = None
    /\ resolvedKeepsRef = FALSE
    /\ deleteEndsRange \in BOOLEAN
    /\ NoUnion

NextFilter == FilterOutDocument

SpecFilter == InitFilter /\ [][NextFilter]_vars

----------------------------------------------------------------------------
(* filterComponentSchemaProperties called on a model, filter.go:101-150 *)

(* filter.go:22: the call, with the model as it stands *)
FilterProperties ==
    /\ pc = "properties"
    /\ doc0' = doc
    /\ doc' = filterComponentSchemaProperties(doc, cfg)
    /\ pc' = "propertiesFiltered"
    /\ UNCHANGED <<cfg, iteration, countRemoved, result, runs, docAtNil,
                   resolvedKeepsRef, deleteEndsRange>>
    /\ UNCHANGED unionVars

PropertyNames == {"x", "y", "z"}

(* an object with the properties x, a $ref to schema a, y, an inline    *)
(* object that has properties of its own, and z, an inline schema       *)
PropertiesSchema(a, required) ==
    InlineProxy([EmptySchema EXCEPT
        !.props = <<[name |-> "x", value |-> RefProxy(SchemaRef(a))],
                    [name |-> "y", value |-> InlineProxy(ObjectSchema(a, a))],
                    [name |-> "z", value |-> InlineProxy(EmptySchema)]>>,
        !.required = required])

(* schema 1 with any required list, schema 2 with y required or nothing *)
(* required, the others without properties                               *)
PropertiesDoc(required1, required2) ==
    [EmptyDoc EXCEPT
        !.schemas = KeySeq,
        !.schemaDefs = [k \in Keys |->
                          CASE k = 1 -> PropertiesSchema(2, required1)
                            [] k = 2 -> PropertiesSchema(1, required2)
                            [] OTHER -> InlineProxy(EmptySchema)],
        !.paths = <<PathItem("/cat", <<>>,
                      <<[method |-> "get",
                         op |-> Operation(<<"cat">>, "getCat", None, <<>>,
                                          Responses(None, <<Response(SeqRef(1), <<>>)>>))]>>)>>]

PropertiesDocs ==
    { PropertiesDoc(r1, r2) : r1 \in SUBSET PropertyNames, r2 \in {{}, {"y"}} }
    \cup { [PropertiesDoc({}, {}) EXCEPT
              !.hasComponents = FALSE, !.schemas = <<>>, !.schemaDefs = <<>>] }

PropertyLists == {<<>>, <<"x">>, <<"y", "z">>, <<"x", "z", "w">>}

(* map[string][]string: no key, schema 1, schemas 1 and 2, a schema      *)
(* without properties, a name that is no schema                          *)
PropertyMaps ==
    {<<>>}
    \cup {1 :> l : l \in PropertyLists}
    \cup {(1 :> l) @@ (2 :> <<"y">>) : l \in PropertyLists}
    \cup {NSchemas :> <<"x">>, (NSchemas + 1) :> <<"x">>}

PropertiesConfigs ==
    { [EmptyConfig EXCEPT !.Include.SchemaProperties = inc,
                          !.Exclude.SchemaProperties = exc] :
        inc \in PropertyMaps, exc \in PropertyMaps }

InitProperties ==
    /\ doc \in PropertiesDocs
    /\ doc0 = doc
    /\ cfg \in PropertiesConfigs
    /\ pc = "properties"
    /\ iteration = 0
    /\ countRemoved = 0
    /\ result = NotReturned
    /\ runs = 0
    /\ docAtNil = None
    /\ resolvedKeepsRef = FALSE
    /\ deleteEndsRange = FALSE
    /\ NoUnion

NextProperties == FilterProperties

SpecProperties == InitProperties /\ [][NextProperties]_vars

----------------------------------------------------------------------------
(* The pipeline: the filter, then the pruner on the model it returned *)

(* filtering has completed and returned the model: pruning begins *)
ThenPrune ==
    /\ pc = "filtered"
    /\ pc' = "prune"
    /\ UNCHANGED <<doc, doc0, cfg, iteration, countRemoved, result, runs, docAtNil,
                   resolvedKeepsRef, deleteEndsRange>>
    /\ UNCHANGED unionVars

(* /cat, whose operation is tagged cat and answers with schema c, and    *)
(* /dog, with a path-level parameter of schema p and an operation tagged *)
(* dog that answers with schema r; 0 is "no such reference"              *)
PipelineDoc(table, c, p, r) ==
    [EmptyDoc EXCEPT
        !.schemas = KeySeq, !.schemaDefs = table,
        !.paths =
          <<PathItem("/cat", <<>>,
              <<[method |-> "get",
                 op |-> Operation(<<"cat">>, "getCat", None, <<>>,
                                  Responses(None, <<Response(SeqRef(c), <<>>)>>))]>>),
            PathItem("/dog",
              IF p = 0 THEN <<>> ELSE <<Parameter(OptRef(p), <<>>)>>,
              <<[method |-> "get",
                 op |-> Operation(<<"dog">>, "getDog", None, <<>>,
                                  Responses(None, <<Response(SeqRef(r), <<>>)>>))]>>)>>]

PipelineDocs ==
    { PipelineDoc(t, c, p, r) :
        t \in SchemaTables, c \in {0, 1}, p \in {0, 2}, r \in {0, NSchemas} }

PipelineConfigs ==
    { [EmptyConfig EXCEPT !.Include.Tags = List(tags)] :
        tags \in {<<"cat">>, <<"hippo", "giraffe", "cat">>} }

InitPipeline ==
    /\ doc \in PipelineDocs
    /\ doc0 = doc
    /\ cfg \in PipelineConfigs
    /\ pc = "filter"
    /\ iteration = 0
    /\ countRemoved = 0
    /\ result = NotReturned
    /\ runs = 0
    /\ docAtNil = None
    /\ resolvedKeepsRef \in BOOLEAN
    /\ deleteEndsRange = FALSE
    /\ NoUnion

NextPipeline == FilterOutDocument \/ ThenPrune \/ PruneEnter \/ PruneIteration

SpecPipeline == InitPipeline /\ [][NextPipeline]_vars

----------------------------------------------------------------------------
(* generateUnion, the union synthesizer.  A member is a schema proxy:    *)
(* its $ref, the schema it resolves to (None when Schema() is nil) and   *)
(* what GenerateGoSchema returns for it.  The parser puts no nil proxy   *)
(* in an anyOf or oneOf list, so the member lists hold none.             *)

MaxMembers == 3

NoUnionRef == [kind |-> "", name |-> ""]

(* "#/components/schemas/<name>" *)
UnionRef(name) == [kind |-> "schemas", name |-> name]

NoError == "nil"

ErrAmbiguousDiscriminatorMapping == "ErrAmbiguousDiscriminatorMapping"

ErrDiscriminatorNotAllMapped == "ErrDiscriminatorNotAllMapped"

(* the error of a member that cannot be synthesized *)
ErrGenerate == "ErrGenerate"

(* GoSchema{} *)
GoSchema ==
    [GoType |-> "", RefType |-> "", Constraints |-> [Nullable |-> None],
     UnionElements |-> <<>>, Discriminator |-> None, AdditionalTypes |-> <<>>]

(* the type of a member is synthesized by GenerateGoSchema: the model    *)
(* takes its result from the member                                      *)
GenerateGoSchema(element, opts) == element.synth

(* GoSchema.TypeDecl: the name the schema is declared under *)
TypeDecl(schema) == IF schema.RefType # "" THEN schema.RefType ELSE schema.GoType

(* the final path segment of a reference *)
refPathToObjName(ref) == ref.name

(* fmt.Sprint(i) *)
Sprint(i) == <<"0", "1", "2", "3", "4", "5">>[i + 1]

(* the type name derived from a positional path *)
pathToTypeName(path) ==
    IF Len(path) = 2 /\ path[1] = "Pet" /\ path[2] \in {"0", "1", "2", "3", "4", "5"}
    THEN ("0" :> "Pet_0" @@ "1" :> "Pet_1" @@ "2" :> "Pet_2" @@ "3" :> "Pet_3"
          @@ "4" :> "Pet_4" @@ "5" :> "Pet_5")[path[2]]
    ELSE "Unnamed"

(* options.WithReference(ref).WithPath(path) *)
WithReference(opts, ref) == [opts EXCEPT !.reference = ref]

WithPath(opts, path) == [opts EXCEPT !.path = path]

(* part_000:125-141 *)
primitives ==
    {"string", "int", "int8", "int16", "int32", "int64", "uint", "uint8", "uint16",
     "uint32", "uint64", "float", "float32", "float64", "bool"}

(* part_000:159-165, without NeedsMarshaler *)
TypeDefinition(schema, name) ==
    [Schema |-> schema, Name |-> name, SpecLocation |-> "union", JsonName |-> "-"]

(* the three results of generateUnion: the schema, the error, and the   *)
(* types options.AddType has been given                                  *)
Returns(schema, err, types) == [schema |-> schema, err |-> err, types |-> types]

(* part_000:101 *)
isNullType(schema) == Len(schema.Type) = 1 /\ Contains(schema.Type, "null")

(* part_000:92-106 *)
isNull(element) == element.schema # None /\ isNullType(element.schema[1])

nonNullElements(members) ==
    SelectSeq(members, LAMBDA element : element.schema # None /\ ~isNull(element))

hasNull(members) == \E i \in DOMAIN members : isNull(members[i])

(* no test for a list of one *)
neverSingle(members) == FALSE

(* part_000:83 *)
singleElement(members) == Len(members) = 1

(* the test for one member left never succeeds *)
neverOneNonNull(members) == FALSE

(* the test succeeds whenever a member is left *)
someNonNull(members) == Len(nonNullElements(members)) >= 1

(* part_000:109 *)
oneNonNull(members) == Len(nonNullElements(members)) = 1

(* part_000:84-86 *)
passThrough(element, opts) ==
    Returns(GenerateGoSchema(element, WithReference(opts, element.ref)).schema,
            GenerateGoSchema(element, WithReference(opts, element.ref)).err,
            opts.types)

(* part_000:110-119 *)
nullable(element, opts, null) ==
    IF passThrough(element, opts).err # NoError
    THEN Returns(GoSchema, passThrough(element, opts).err, opts.types)
    ELSE IF null
    THEN [passThrough(element, opts) EXCEPT !.schema.Constraints.Nullable = Some(TRUE)]
    ELSE passThrough(element, opts)

(* part_000:156 *)
definesType(ref, elementSchema) == ref = NoUnionRef /\ elementSchema.GoType \notin primitives

(* part_000:158-168: the type definition the member adds, if any *)
addedTypes(elementSchema, elementName) ==
    IF TypeDecl(elementSchema) # elementName
    THEN <<TypeDefinition(elementSchema, elementName)>> ELSE <<>>

(* part_000:156-171: the member's schema when the discriminator is reached *)
namedSchema(element, elementSchema, elementPath) ==
    IF definesType(element.ref, elementSchema)
    THEN [elementSchema EXCEPT !.GoType = pathToTypeName(elementPath)]
    ELSE elementSchema

(* part_000:174 *)
ambiguous(disc, element) ==
    disc # None /\ Len(disc[1].Mapping) # 0 /\ element.ref = NoUnionRef

(* the explicit mapping is never consulted *)
implicitKey(mapping, ref, i) == refPathToObjName(ref)

(* part_000:180-190: the key the member is mapped under *)
RECURSIVE mappingKey(_, _, _)
mappingKey(mapping, ref, i) ==
    IF i > Len(mapping) THEN refPathToObjName(ref)
    ELSE IF mapping[i].v = ref THEN mapping[i].k
    ELSE mappingKey(mapping, ref, i + 1)

(* Mapping[k] = v *)
Put(map, k, v) == [x \in DOMAIN map \cup {k} |-> IF x = k THEN v ELSE map[x]]

(* without the break: every explicit value that points at the member is *)
(* entered                                                               *)
mapEveryValue(out, disc, element, goType) ==
    IF disc = None THEN out
    ELSE [out EXCEPT !.Discriminator[1].Mapping =
             IF \E j \in DOMAIN disc[1].Mapping : disc[1].Mapping[j].v = element.ref
             THEN [x \in DOMAIN @ \cup {disc[1].Mapping[j].k :
                                          j \in {n \in DOMAIN disc[1].Mapping :
                                                   disc[1].Mapping[n].v = element.ref}}
                     |-> IF x \in DOMAIN @ THEN @[x] ELSE goType]
             ELSE Put(@, refPathToObjName(element.ref), goType)]

(* part_000:173-191 past the ambiguity test *)
mapElement(out, disc, element, goType) ==
    IF disc = None THEN out
    ELSE [out EXCEPT !.Discriminator[1].Mapping =
             Put(@, mappingKey(disc[1].Mapping, element.ref, 1), goType)]

(* part_000:155-171: outSchema.AdditionalTypes after the member *)
withAdditionalTypes(out, element, elementSchema, elementPath) ==
    IF definesType(element.ref, elementSchema)
    THEN [out EXCEPT !.AdditionalTypes =
             @ \o addedTypes(elementSchema, pathToTypeName(elementPath))
               \o elementSchema.AdditionalTypes]
    ELSE out

(* options.AddType(td), part_000:166 *)
AddType(types, element, elementSchema, elementPath) ==
    IF definesType(element.ref, elementSchema)
    THEN types \o addedTypes(elementSchema, pathToTypeName(elementPath))
    ELSE types

(* part_000:143-193, one pass of the loop body; i is the index in the    *)
(* filtered list, from 0                                                 *)
unionElement(acc, disc, opts, element, i) ==
    LET elementPath == Append(opts.path, Sprint(i))
        generated == GenerateGoSchema(
                         element, WithPath(WithReference(opts, element.ref), elementPath))
        types == AddType(acc.types, element, generated.schema, elementPath)
        goType == namedSchema(element, generated.schema, elementPath).GoType
    IN  IF generated.err # NoError THEN Returns(GoSchema, generated.err, acc.types)
        ELSE IF ambiguous(disc, element)
        THEN Returns(GoSchema, ErrAmbiguousDiscriminatorMapping, types)
        ELSE Returns(
                 [mapElement(
                      withAdditionalTypes(acc.schema, element, generated.schema, elementPath),
                      disc, element, goType)
                  EXCEPT !.UnionElements = Append(@, goType)],
                 NoError, types)

(* part_000:143-193 *)
RECURSIVE rangeElements(_, _, _, _, _)
rangeElements(acc, disc, opts, members, i) ==
    IF i > Len(members) \/ acc.err # NoError THEN acc
    ELSE rangeElements(unionElement(acc, disc, opts, members[i], i - 1),
                       disc, opts, members, i + 1)

(* nothing is removed *)
keepDuplicates(unionElements) == unionElements

(* part_000:205-218 *)
RECURSIVE deduplicateFrom(_, _, _)
deduplicateFrom(unionElements, i, kept) ==
    IF i > Len(unionElements) THEN kept
    ELSE deduplicateFrom(unionElements, i + 1,
                         IF unionElements[i] \in Range(kept) THEN kept
                         ELSE Append(kept, unionElements[i]))

deduplicateUnionElements(unionElements) == deduplicateFrom(unionElements, 1, <<>>)

(* the entries are counted against the members left by the deduplication *)
notAllMappedDistinct(schema, members) ==
    /\ schema.Discriminator # None
    /\ Cardinality(DOMAIN schema.Discriminator[1].Mapping)
          # Len(deduplicateUnionElements(schema.UnionElements))

(* part_000:198 *)
notAllMapped(schema, members) ==
    /\ schema.Discriminator # None
    /\ Cardinality(DOMAIN schema.Discriminator[1].Mapping) # Len(members)

(* part_000:195-202 *)
finish(acc, members) ==
    IF acc.err # NoError THEN acc
    ELSE IF notAllMapped(acc.schema, members)
    THEN Returns(GoSchema, ErrDiscriminatorNotAllMapped, acc.types)
    ELSE [acc EXCEPT !.schema.UnionElements = deduplicateUnionElements(@)]

(* part_000:72-80 *)
outSchema(disc) ==
    IF disc = None THEN GoSchema
    ELSE [GoSchema EXCEPT
             !.Discriminator = Some([Property |-> disc[1].PropertyName, Mapping |-> <<>>])]

(* part_000:71-203 *)
generateUnion(members, disc, opts) ==
    IF singleElement(members) THEN passThrough(members[1], opts)
    ELSE IF oneNonNull(members)
    THEN nullable(nonNullElements(members)[1], opts, hasNull(members))
    ELSE finish(rangeElements(Returns(outSchema(disc), NoError, opts.types),
                              disc, opts, nonNullElements(members), 1),
                nonNullElements(members))

(* one call of generateUnion *)
GenerateUnion ==
    /\ pc = "union"
    /\ \E out \in {generateUnion(elements, discriminator, options)} :
          /\ result' = [schema |-> out.schema, err |-> out.err]
          /\ options' = [options EXCEPT !.types = out.types]
    /\ pc' = "returned"
    /\ UNCHANGED <<elements, discriminator>>
    /\ UNCHANGED documentVars

(* what GenerateGoSchema makes of a member *)
Synth(goType, refType, nullableType, additionalTypes) ==
    [schema |-> [GoSchema EXCEPT !.GoType = goType, !.RefType = refType,
                                 !.Constraints.Nullable = nullableType,
                                 !.AdditionalTypes = additionalTypes],
     err |-> NoError]

(* an inline member of the given type list *)
InlineMember(type, goType, nullableType, additionalTypes) ==
    [ref |-> NoUnionRef, schema |-> Some([Type |-> type]),
     synth |-> Synth(goType, "", nullableType, additionalTypes)]

(* a $ref to a named object schema *)
RefMember(name) ==
    [ref |-> UnionRef(name), schema |-> Some([Type |-> <<"object">>]),
     synth |-> Synth(name, name, None, <<>>)]

(* a $ref whose Schema() is nil *)
UnresolvedMember(name) ==
    [ref |-> UnionRef(name), schema |-> None, synth |-> Synth(name, name, None, <<>>)]

(* an inline member that GenerateGoSchema rejects *)
FailingMember ==
    [ref |-> NoUnionRef, schema |-> Some([Type |-> <<"array">>]),
     synth |-> [schema |-> GoSchema, err |-> ErrGenerate]]

(* an inline member for which GenerateGoSchema returns its error together *)
(* with the schema it had built when it failed                            *)
PartialMember ==
    [ref |-> NoUnionRef, schema |-> Some([Type |-> <<"object">>]),
     synth |-> [schema |-> [GoSchema EXCEPT !.GoType = "struct"], err |-> ErrGenerate]]

NullMember == InlineMember(<<"null">>, "any", None, <<>>)

StringMember == InlineMember(<<"string">>, "string", None, <<>>)

IntegerMember == InlineMember(<<"integer">>, "int", None, <<>>)

(* type: [string, "null"] *)
NullableStringMember == InlineMember(<<"string", "null">>, "string", Some(TRUE), <<>>)

(* an inline object with a nested type of its own *)
ObjectMember ==
    InlineMember(<<"object">>, "struct", None,
                 <<[Schema |-> [GoSchema EXCEPT !.GoType = "string"], Name |-> "Pet_Inner",
                    SpecLocation |-> "schema", JsonName |-> "inner"]>>)

Members ==
    {NullMember, StringMember, IntegerMember, NullableStringMember, ObjectMember,
     RefMember("RefA"), RefMember("RefB"), RefMember("RefC"), UnresolvedMember("Gone"),
     FailingMember, PartialMember}

MemberLists == UNION {[1..n -> Members] : n \in 1..MaxMembers}

Entry(k, name) == [k |-> k, v |-> UnionRef(name)]

(* base.Discriminator: the property name and the explicit mapping, value *)
(* to reference, in document order                                       *)
Discriminator(mapping) == Some([PropertyName |-> "kind", Mapping |-> mapping])

(* none; one without mapping; two of three references mapped; all three  *)
(* mapped; two values for one reference; a value that is the name of     *)
(* another reference                                                     *)
Discriminators ==
    {None,
     Discriminator(<<>>),
     Discriminator(<<Entry("a", "RefA"), Entry("b", "RefB")>>),
     Discriminator(<<Entry("a", "RefA"), Entry("b", "RefB"), Entry("c", "RefC")>>),
     Discriminator(<<Entry("a", "RefA"), Entry("a2", "RefA"), Entry("b", "RefB"),
                     Entry("c", "RefC")>>),
     Discriminator(<<Entry("RefB", "RefA")>>)}

InitUnion ==
    /\ elements \in MemberLists
    /\ discriminator \in Discriminators
    /\ options = [path |-> <<"Pet">>, reference |-> NoUnionRef, types |-> <<>>]
    /\ pc = "union"
    /\ result = NotReturned
    /\ doc = EmptyDoc
    /\ doc0 = EmptyDoc
    /\ cfg = EmptyConfig
    /\ iteration = 0
    /\ countRemoved = 0
    /\ runs = 0
    /\ docAtNil = None
    /\ resolvedKeepsRef = FALSE
    /\ deleteEndsRange = FALSE

NextUnion == GenerateUnion

SpecUnion == InitUnion /\ [][NextUnion]_vars

----------------------------------------------------------------------------
(* What a document refers to, read off the document itself: every $ref   *)
(* written in an object, inline schemas followed to any depth.  Nothing  *)
(* here uses the collector.                                              *)

ProxiesOf(schema) ==
    {schema.props[i].value : i \in DOMAIN schema.props} \cup Range(schema.items)
    \cup Range(schema.addl) \cup Range(schema.allOf) \cup Range(schema.oneOf)
    \cup Range(schema.anyOf) \cup Range(schema.not)

RECURSIVE RefsOfSchema(_)
RefsOfProxy(proxy) == IF proxy.ref # NoRef THEN {proxy.ref} ELSE RefsOfSchema(proxy.schema)

RefsOfSchema(schema) ==
    IF schema = NilSchema THEN {} ELSE UNION {RefsOfProxy(x) : x \in ProxiesOf(schema)}

OwnRef(object) == IF object.ref # NoRef THEN {object.ref} ELSE {}

RefsOfParameter(p) ==
    OwnRef(p) \cup UNION {RefsOfProxy(x) : x \in Range(p.schema) \cup Range(p.content)}

RefsOfRequestBody(b) == OwnRef(b) \cup UNION {RefsOfProxy(x) : x \in Range(b.content)}

RefsOfResponse(r) ==
    OwnRef(r) \cup UNION {RefsOfProxy(x) : x \in Range(r.content)}
    \cup UNION {RefsOfParameter(h) : h \in Range(r.headers)}

RefsOfOperation(op) ==
    UNION {RefsOfRequestBody(b) : b \in Range(op.requestBody)}
    \cup UNION {RefsOfParameter(x) : x \in Range(op.parameters)}
    \cup UNION {RefsOfResponse(r) :
                  r \in UNION {Range(rs.default) \cup Range(rs.codes) :
                                 rs \in Range(op.responses)}}

RefsOfPathItem(item) ==
    UNION {RefsOfParameter(x) : x \in Range(item.parameters)}
    \cup UNION {RefsOfOperation(e.op) : e \in Range(item.ops)}

(* the references written in the surviving operations *)
RefsInOperations(d) ==
    IF ~d.hasPaths THEN {} ELSE UNION {RefsOfPathItem(item) : item \in Range(d.paths)}

(* the component a reference points at or into *)
Owner(r) == ComponentRef(r.kind, r.name)

(* the references written in the definition of a named component *)
RefsOfComponent(d, c) ==
    CASE c.kind = "schemas" /\ Defined(d, c.name) ->
            RefsOfProxy(SchemaDef(d, c.name))
      [] c.kind = "parameters" /\ c.name \in DOMAIN d.parameterDefs ->
            RefsOfParameter(d.parameterDefs[c.name])
      [] c.kind = "requestBodies" /\ c.name \in DOMAIN d.requestBodyDefs ->
            RefsOfRequestBody(d.requestBodyDefs[c.name])
      [] c.kind = "responses" /\ c.name \in DOMAIN d.responseDefs ->
            RefsOfResponse(d.responseDefs[c.name])
      [] c.kind = "headers" /\ c.name \in DOMAIN d.headerDefs ->
            RefsOfParameter(d.headerDefs[c.name])
      [] OTHER -> {}

(* the named components of the five pruned categories still in the table *)
PresentComponents(d) ==
    IF ~d.hasComponents THEN {}
    ELSE {ComponentRef("schemas", k) : k \in Range(d.schemas)}
         \cup {ComponentRef("parameters", k) : k \in Range(d.parameters)}
         \cup {ComponentRef("requestBodies", k) : k \in Range(d.requestBodies)}
         \cup {ComponentRef("responses", k) : k \in Range(d.responses)}
         \cup {ComponentRef("headers", k) : k \in Range(d.headers)}

(* the components reachable from a set of components *)
RECURSIVE ReachableFrom(_, _)
ReachableFrom(d, cs) ==
    IF UNION {{Owner(r) : r \in RefsOfComponent(d, c)} : c \in cs} \subseteq cs THEN cs
    ELSE ReachableFrom(d, cs \cup UNION {{Owner(r) : r \in RefsOfComponent(d, c)} : c \in cs})

(* the components transitively reachable from the surviving operations *)
ReachableFromOperations(d) == ReachableFrom(d, {Owner(r) : r \in RefsInOperations(d)})

(* C1: after pruneSchema returns nil, every reference written in a       *)
(* surviving operation or in a surviving component points at a component *)
(* that is still present: no deleted component is transitively           *)
(* referenced by what survives.                                          *)
C1_NoDeletedComponentReferenced ==
    pc = "done" =>
        \A r \in RefsInOperations(doc)
                 \cup UNION {RefsOfComponent(doc, c) : c \in PresentComponents(doc)} :
            Owner(r) \in PresentComponents(doc)

(* C2: after pruneSchema returns nil, every named component still in the *)
(* table is transitively reachable from a surviving operation.           *)
C2_OnlyReachableComponentsRemain ==
    pc = "done" => PresentComponents(doc) \subseteq ReachableFromOperations(doc)

(* C3: pruneSchema run again on a model on which it has returned nil     *)
(* removes nothing in its first pass, returns nil after that pass, and   *)
(* leaves the model as the first run left it.                            *)
C3_PruneIdempotent ==
    runs >= 2 =>
        /\ pc = "loop" => iteration = 0 /\ Some(doc) = docAtNil
        /\ pc = "done" => iteration = 1 /\ countRemoved = 0 /\ Some(doc) = docAtNil
        /\ pc \in {"loop", "done", "prune", "failed"}

(* a second run has returned nil, on a model from which the first run   *)
(* had removed some schemas and kept others                              *)
C3_SecondRunReturned ==
    /\ runs = 2
    /\ pc = "done"
    /\ result = Nil
    /\ docAtNil = Some(doc)
    /\ Len(doc.schemas) \in 1..(NSchemas - 1)

(* C4: pruneSchema never fails with the iteration-cap error: a pass that *)
(* removes nothing comes before the cap is exceeded.                     *)
C4_FixpointBeforeCap == pc # "error" /\ iteration <= maxIterations

(* C5: when the cap is exceeded pruneSchema returns the error whose      *)
(* message carries the cap, 1000, and returns nothing else: no model.    *)
C5_CapErrorStatesCap ==
    pc = "error" =>
        /\ result = <<"error",
                      "pruning exceeded maximum iterations (%d), possible infinite loop",
                      maxIterations>>
        /\ iteration = maxIterations + 1

(* the cap has been exceeded after a thousand passes that each removed a *)
(* component                                                             *)
C5_CapExceeded == pc = "error" /\ countRemoved > 0 /\ Len(doc.schemas) < ChainLen

----------------------------------------------------------------------------
(* The filter rules as the configuration surface states them: an axis    *)
(* filters only when its list has an element.                            *)

Axes ==
    {<<side, axis>> : side \in {"Include", "Exclude"},
                      axis \in {"Paths", "Tags", "OperationIDs", "SchemaProperties"}}

AxisEmpty(c, a) ==
    IF a[2] = "SchemaProperties" THEN DOMAIN c[a[1]].SchemaProperties = {}
    ELSE Len(c[a[1]][a[2]].v) = 0

(* the configuration with one axis unset *)
Unset(c, a) ==
    [c EXCEPT ![a[1]][a[2]] = IF a[2] = "SchemaProperties" THEN <<>> ELSE NoFilter]

(* what filterOutDocument leaves of a document it returns *)
Filtered(d, c, ends) ==
    IF returnsEarly(c) THEN d
    ELSE filterComponentSchemaProperties(filterOperations(d, c, ends), c)

PathKept(c, path) ==
    /\ Len(c.Include.Paths.v) = 0 \/ Contains(c.Include.Paths.v, path)
    /\ Len(c.Exclude.Paths.v) = 0 \/ ~Contains(c.Exclude.Paths.v, path)

OperationRemoved(c, op) ==
    \/ \E i \in DOMAIN op.tags : Contains(c.Exclude.Tags.v, op.tags[i])
    \/ /\ Len(c.Include.Tags.v) > 0
       /\ ~\E i \in DOMAIN op.tags : Contains(c.Include.Tags.v, op.tags[i])
    \/ Contains(c.Exclude.OperationIDs.v, op.operationId)
    \/ /\ Len(c.Include.OperationIDs.v) > 0
       /\ ~Contains(c.Include.OperationIDs.v, op.operationId)

PathNames(d) == {d.paths[i].path : i \in DOMAIN d.paths}

(* the pairs of a path item of the filtered model and the path item it   *)
(* was before                                                            *)
Survivors ==
    {<<doc0.paths[i], doc.paths[j]>> :
        <<i, j>> \in {ij \in (DOMAIN doc0.paths) \X (DOMAIN doc.paths) :
                         doc0.paths[ij[1]].path = doc.paths[ij[2]].path}}

Methods(pathItem) == {pathItem.ops[i].method : i \in DOMAIN pathItem.ops}

(* C6: with every axis of Include and of Exclude nil or of length zero,  *)
(* filterOutDocument returns the document it was given and no error, and *)
(* the model is what it was: no path, operation or property is gone.     *)
C6_EmptyConfigChangesNothing ==
    (pc # "filter" /\ \A a \in Axes : AxisEmpty(cfg, a)) =>
        pc = "filtered" /\ result = DocAndNil /\ doc = doc0

(* filterOutDocument has returned under a configuration whose axes are   *)
(* all empty and whose Include.Paths is an empty list that is not nil    *)
C6_ReturnedOnEmptyLists ==
    /\ pc = "filtered"
    /\ \A a \in Axes : AxisEmpty(cfg, a)
    /\ cfg.Include.Paths = List(<<>>)
    /\ cfg.Exclude.OperationIDs = List(<<>>)
    /\ Len(doc.paths) > 1

(* C7: an axis that is nil or an empty list filters nothing by itself:   *)
(* the filtered model is the one the same configuration yields with that *)
(* axis unset, whatever the other axes hold.                             *)
C7_EmptyAxisIsNoFilter ==
    pc = "filtered" =>
        \A a \in Axes :
            AxisEmpty(cfg, a) => doc = Filtered(doc0, Unset(cfg, a), deleteEndsRange)

(* C8: after filtering, a path is present if and only if it was present  *)
(* before and Include.Paths is empty or holds it and Exclude.Paths is    *)
(* empty or does not hold it; every path failing this is gone.           *)
C8_PathPresentIffKept ==
    pc = "filtered" =>
        PathNames(doc) = {path \in PathNames(doc0) : PathKept(cfg, path)}

(* C9: on a surviving path an operation is gone if and only if a tag of  *)
(* it is in Exclude.Tags, or Include.Tags is non-empty and holds none of *)
(* its tags, or its id is in Exclude.OperationIDs, or                    *)
(* Include.OperationIDs is non-empty and does not hold its id.           *)
C9_OperationRemovedIffRule ==
    pc = "filtered" =>
        \A pair \in Survivors :
            \A i \in DOMAIN pair[1].ops :
                (pair[1].ops[i].method \notin Methods(pair[2]))
                    <=> OperationRemoved(cfg, pair[1].ops[i].op)

(* C10: filtering detaches from a surviving path item only the methods   *)
(* whose operation it removes: the path-level parameters are what they   *)
(* were, every operation left is what it was and in its place, and every *)
(* operation whose remove flag was false is left.  No path item appears  *)
(* that was not there.                                                   *)
C10_DetachOnlyThatMethod ==
    pc \in {"filtered", "failed"} =>
        /\ PathNames(doc) \subseteq PathNames(doc0)
        /\ \A pair \in Survivors :
              /\ pair[2].parameters = pair[1].parameters
              /\ \E kept \in SUBSET Methods(pair[1]) :
                    /\ pair[2].ops = SelectSeq(pair[1].ops, LAMBDA e : e.method \in kept)
                    /\ \A e \in Range(pair[1].ops) : ~remove(cfg, e.op) => e.method \in kept

(* an operation has been detached from a path item that keeps a sibling  *)
(* method and its path-level parameter                                   *)
C10_OneMethodDetached ==
    /\ pc = "filtered"
    /\ \E pair \in Survivors :
          /\ Len(pair[2].ops) = 1
          /\ Len(pair[1].ops) = 2
          /\ Len(pair[2].parameters) = 1

----------------------------------------------------------------------------
(* The schema-property rules as the filter engine states them: the map   *)
(* in force is Include's when Include has one, else Exclude's.           *)

IncludeInForce(c) == DOMAIN c.Include.SchemaProperties # {}

ExcludeInForce(c) == ~IncludeInForce(c) /\ DOMAIN c.Exclude.SchemaProperties # {}

MapInForce(c) ==
    IF IncludeInForce(c) THEN c.Include.SchemaProperties ELSE c.Exclude.SchemaProperties

NamesOf(proxy) == {proxy.schema.props[i].name : i \in DOMAIN proxy.schema.props}

(* the properties the rules leave to a schema that is a key of the map *)
PropertiesLeft(c, proxy, listed) ==
    SelectSeq(proxy.schema.props,
              LAMBDA e : \/ e.name \in proxy.schema.required
                         \/ IncludeInForce(c) /\ e.name \in Range(listed)
                         \/ ExcludeInForce(c) /\ e.name \notin Range(listed))

(* C11: filterComponentSchemaProperties changes nothing but the property *)
(* lists of the named schemas that are keys of the map in force: under   *)
(* Include such a schema keeps exactly its listed and its required       *)
(* properties, under Exclude it loses exactly its listed properties that *)
(* are not required; the properties kept are what they were, nested      *)
(* properties included, and every other schema is what it was.           *)
C11_OnlyKeyedSchemasFiltered ==
    pc = "propertiesFiltered" =>
        /\ [doc EXCEPT !.schemaDefs = doc0.schemaDefs] = doc0
        /\ DOMAIN doc.schemaDefs = DOMAIN doc0.schemaDefs
        /\ \A k \in DOMAIN doc0.schemaDefs :
              doc.schemaDefs[k] =
                  IF k \in DOMAIN MapInForce(cfg)
                  THEN [doc0.schemaDefs[k] EXCEPT
                           !.schema.props =
                               PropertiesLeft(cfg, doc0.schemaDefs[k], MapInForce(cfg)[k])]
                  ELSE doc0.schemaDefs[k]

(* C12: a property in the required list of a named schema before         *)
(* filterComponentSchemaProperties is a property of that schema after    *)
(* it, whatever the Include and Exclude maps hold.                       *)
C12_RequiredPropertyStays ==
    pc = "propertiesFiltered" =>
        \A k \in DOMAIN doc0.schemaDefs :
            NamesOf(doc0.schemaDefs[k]) \cap doc0.schemaDefs[k].schema.required
                \subseteq NamesOf(doc.schemaDefs[k])

(* schema 1 has required x, which the Exclude list of schema 1 names,    *)
(* and has kept x while it lost another property                         *)
C12_RequiredKeptUnderExclude ==
    /\ pc = "propertiesFiltered"
    /\ DOMAIN cfg.Include.SchemaProperties = {}
    /\ 1 \in DOMAIN cfg.Exclude.SchemaProperties
    /\ "x" \in Range(cfg.Exclude.SchemaProperties[1])
    /\ 1 \in DOMAIN doc0.schemaDefs
    /\ "x" \in doc0.schemaDefs[1].schema.required
    /\ "x" \in NamesOf(doc.schemaDefs[1])
    /\ NamesOf(doc.schemaDefs[1]) # NamesOf(doc0.schemaDefs[1])

(* C13: with both maps non-empty the model is the one the Include map    *)
(* alone yields: the Exclude map has no effect.                          *)
C13_IncludeTakesPrecedence ==
    (/\ pc = "propertiesFiltered"
     /\ DOMAIN cfg.Include.SchemaProperties # {}
     /\ DOMAIN cfg.Exclude.SchemaProperties # {}) =>
        doc = filterComponentSchemaProperties(
                  doc0, [cfg EXCEPT !.Exclude.SchemaProperties = <<>>])

(* the references written in the path item of a path *)
RefsOfPath(d, path) ==
    UNION {RefsOfPathItem(item) : item \in {x \in Range(d.paths) : x.path = path}}

(* C14: after the filter with Include.Tags holding cat and not dog and   *)
(* the pruner run to its fixpoint, /cat is the only path of the model    *)
(* and every named component left is transitively reachable from /cat:   *)
(* what only /dog used, its path-level parameters included, is gone.     *)
C14_OnlyCatAndItsComponents ==
    (pc = "done" /\ cfg.Include.Tags # NoFilter) =>
        /\ PathNames(doc) = {"/cat"}
        /\ PresentComponents(doc)
              \subseteq ReachableFrom(doc, {Owner(r) : r \in RefsOfPath(doc, "/cat")})

----------------------------------------------------------------------------
(* The union rules as the synthesizer states them *)

(* the member is exactly the null type *)
NullType(m) == m.schema # None /\ m.schema[1].Type = <<"null">>

(* every member resolves to a schema *)
AllResolve(members) == \A i \in DOMAIN members : members[i].schema # None

(* the members that are not the null type, in order *)
NonNull(members) == SelectSeq(members, LAMBDA m : m.schema # None /\ ~NullType(m))

(* generateUnion has returned this schema and no error *)
Succeeded == pc = "returned" /\ result.err = NoError

(* the name a union gives the member at index i, from 0, of its members: *)
(* the member's own type name when it is a reference or a primitive,     *)
(* else the name derived from the member's position                      *)
MemberName(m, i) ==
    IF m.ref # NoUnionRef \/ m.synth.schema.GoType \in primitives
    THEN m.synth.schema.GoType
    ELSE pathToTypeName(<<"Pet", Sprint(i)>>)

MemberNames(members) == [i \in DOMAIN members |-> MemberName(members[i], i - 1)]

(* a list without the later occurrences of what it already holds *)
RECURSIVE FirstOccurrences(_)
FirstOccurrences(names) ==
    IF names = <<>> THEN <<>>
    ELSE IF names[Len(names)] \in Range(SubSeq(names, 1, Len(names) - 1))
    THEN FirstOccurrences(SubSeq(names, 1, Len(names) - 1))
    ELSE Append(FirstOccurrences(SubSeq(names, 1, Len(names) - 1)), names[Len(names)])

(* C15: for a member list of one, generateUnion returns what             *)
(* GenerateGoSchema returns for that member, schema and error: no union  *)
(* member, no discriminator and no added type, be the member the null    *)
(* type or not and a discriminator declared or not.                      *)
C15_SingleMemberPassedThrough ==
    (pc = "returned" /\ Len(elements) = 1) =>
        /\ result = elements[1].synth
        /\ result.schema.UnionElements = <<>>
        /\ result.schema.Discriminator = None
        /\ options.types = <<>>

(* the one member is the null type, a discriminator is declared, and the *)
(* member's own type has been returned                                   *)
C15_NullPassedThrough ==
    /\ pc = "returned"
    /\ elements = <<NullMember>>
    /\ discriminator # None
    /\ result.err = NoError
    /\ result.schema.GoType = "any"

(* C16: for a list of two members of which exactly one is exactly the    *)
(* null type, in either order, generateUnion returns the other member's  *)
(* own type marked nullable, with no union member and no added type (or  *)
(* the error of synthesizing that member); a member whose type list      *)
(* holds null among other types counts as the other member.              *)
C16_TypeOrNullIsOptional ==
    (/\ pc = "returned"
     /\ Len(elements) = 2
     /\ AllResolve(elements)
     /\ Len(NonNull(elements)) = 1) =>
        /\ result.err = NonNull(elements)[1].synth.err
        /\ result.err = NoError =>
              result.schema = [NonNull(elements)[1].synth.schema
                                  EXCEPT !.Constraints.Nullable = Some(TRUE)]
        /\ result.schema.UnionElements = <<>>
        /\ options.types = <<>>

(* null comes first, the other member is a reference, and the type of    *)
(* the reference has been returned marked nullable                       *)
C16_NullThenRefCollapsed ==
    /\ pc = "returned"
    /\ elements = <<NullMember, RefMember("RefA")>>
    /\ result.err = NoError
    /\ result.schema.GoType = "RefA"
    /\ result.schema.Constraints.Nullable = Some(TRUE)

C18_UnionMembersDeduplicated ==
    Succeeded =>
        /\ \A i, j \in DOMAIN result.schema.UnionElements :
              result.schema.UnionElements[i] = result.schema.UnionElements[j] => i = j
        /\ (Len(elements) # 1 /\ Len(NonNull(elements)) # 1) =>
              result.schema.UnionElements = FirstOccurrences(MemberNames(NonNull(elements)))
        /\ deduplicateUnionElements(result.schema.UnionElements)
              = result.schema.UnionElements
        /\ (elements = <<RefMember("RefA"), RefMember("RefA")>> /\ discriminator = None) =>
              result.schema.UnionElements = <<"RefA">>

(* [RefA, RefA] without discriminator has returned the union of RefA *)
C18_SameReferenceTwice ==
    /\ Succeeded
    /\ elements = <<RefMember("RefA"), RefMember("RefA")>>
    /\ discriminator = None
    /\ result.schema.UnionElements = <<"RefA">>

(* the references the explicit mapping of the discriminator points at *)
MappedRefs == {discriminator[1].Mapping[i].v : i \in DOMAIN discriminator[1].Mapping}

(* the members are three different references, none the null type *)
ThreeReferences ==
    /\ Len(elements) = 3
    /\ \A i \in 1..3 : elements[i].ref # NoUnionRef /\ elements[i].schema # None
    /\ Cardinality({elements[i].ref : i \in 1..3}) = 3

(* C19: for three referenced members and a discriminator with an         *)
(* explicit mapping, generateUnion returns ErrDiscriminatorNotAllMapped  *)
(* when the mapping points at two of the three, and succeeds when it     *)
(* points at all three.                                                  *)
C19_MappingMustCoverEveryMember ==
    (pc = "returned" /\ ThreeReferences /\ discriminator # None) =>
        /\ Cardinality(MappedRefs \cap {elements[i].ref : i \in 1..3}) = 2 =>
              result.err = ErrDiscriminatorNotAllMapped
        /\ Cardinality(MappedRefs \cap {elements[i].ref : i \in 1..3}) = 3 =>
              result.err = NoError

(* C20: with a discriminator declared, mapping or no mapping, two or     *)
(* more members left after the null types, every one of them             *)
(* synthesized, and one of them inline, generateUnion returns            *)
(* ErrAmbiguousDiscriminatorMapping.                                     *)
C20_InlineMemberIsAmbiguous ==
    (/\ pc = "returned"
     /\ discriminator # None
     /\ Len(NonNull(elements)) >= 2
     /\ \A i \in DOMAIN elements : elements[i].synth.err = NoError
     /\ \E i \in DOMAIN NonNull(elements) : NonNull(elements)[i].ref = NoUnionRef) =>
        result.err = ErrAmbiguousDiscriminatorMapping

(* the values of the explicit mapping whose target is the reference *)
ExplicitValues(ref) ==
    {discriminator[1].Mapping[j].k :
        j \in {n \in DOMAIN discriminator[1].Mapping : discriminator[1].Mapping[n].v = ref}}

(* the final path segment of a reference, empty for no reference *)
FinalSegment(ref) == ref.name

(* the output mapping of the returned schema, a function from the keys *)
OutMapping == result.schema.Discriminator[1].Mapping

(* the key is one the rule of the mapping gives the member *)
KeyFor(k, m) ==
    IF ExplicitValues(m.ref) # {} THEN k \in ExplicitValues(m.ref)
    ELSE k = FinalSegment(m.ref)

(* C21: when generateUnion succeeds with a declared discriminator on two *)
(* or more non-null members, the output mapping has as many entries as   *)
(* there are members and every member has its one entry: under an        *)
(* explicit mapping value whose target is the member's reference when    *)
(* there is one, else under the final path segment of the member's own   *)
(* reference, and the entry's value is the member's type name; no entry  *)
(* belongs to no member.                                                 *)
C21_OneMappingEntryPerMember ==
    (Succeeded /\ discriminator # None /\ Len(NonNull(elements)) >= 2) =>
        /\ result.schema.Discriminator # None
        /\ Cardinality(DOMAIN OutMapping) = Len(NonNull(elements))
        /\ \A i \in DOMAIN NonNull(elements) :
              Cardinality({k \in DOMAIN OutMapping : KeyFor(k, NonNull(elements)[i])}) = 1
        /\ \A i \in DOMAIN NonNull(elements) :
              \A k \in DOMAIN OutMapping :
                 KeyFor(k, NonNull(elements)[i]) =>
                    OutMapping[k] = MemberName(NonNull(elements)[i], i - 1)
        /\ \A k \in DOMAIN OutMapping :
              \E i \in DOMAIN NonNull(elements) : KeyFor(k, NonNull(elements)[i])

(* two of three references are in the explicit mapping and the third has *)
(* been entered under the final segment of its own reference             *)
C21_ExplicitAndImplicitEntries ==
    /\ Succeeded
    /\ elements = <<RefMember("RefA"), RefMember("RefB"), RefMember("RefC")>>
    /\ discriminator = Discriminator(<<Entry("a", "RefA"), Entry("b", "RefB")>>)
    /\ DOMAIN OutMapping = {"a", "b", "RefC"}
    /\ OutMapping["a"] = "RefA"
    /\ OutMapping["RefC"] = "RefC"

KeyOf(m) ==
    IF ExplicitValues(m.ref) = {} THEN FinalSegment(m.ref)
    ELSE discriminator[1].Mapping[
             CHOOSE j \in DOMAIN discriminator[1].Mapping :
                /\ discriminator[1].Mapping[j].v = m.ref
                /\ \A n \in 1..(j - 1) : discriminator[1].Mapping[n].v # m.ref].k

(* every member left is synthesized and none is ambiguous: the loop of   *)
(* generateUnion reaches its end                                         *)
AllMembersMapped ==
    /\ discriminator # None
    /\ Len(NonNull(elements)) >= 2
    /\ \A i \in DOMAIN NonNull(elements) :
          /\ NonNull(elements)[i].synth.err = NoError
          /\ Len(discriminator[1].Mapping) # 0 => NonNull(elements)[i].ref # NoUnionRef

(* two of the members left resolve to the same mapping key *)
SharedKey ==
    \E i, j \in DOMAIN NonNull(elements) :
        i # j /\ KeyOf(NonNull(elements)[i]) = KeyOf(NonNull(elements)[j])

(* C29: with a discriminator declared, the entries of the output mapping *)
(* are counted against the non-null members as they are before the       *)
(* deduplication: when two members resolve to the same key, the same     *)
(* reference listed twice for one, generateUnion returns                 *)
(* ErrDiscriminatorNotAllMapped and no union of the distinct members;    *)
(* when no two do, it succeeds.                                          *)
C29_SharedKeyIsRejected ==
    (pc = "returned" /\ AllMembersMapped) =>
        /\ SharedKey => result.err = ErrDiscriminatorNotAllMapped /\ result.schema = GoSchema
        /\ ~SharedKey => result.err = NoError

(* [RefA, RefA] under a discriminator has been rejected *)
C29_SameReferenceTwiceRejected ==
    /\ pc = "returned"
    /\ elements = <<RefMember("RefA"), RefMember("RefA")>>
    /\ discriminator = Discriminator(<<>>)
    /\ result.err = ErrDiscriminatorNotAllMapped

(* C30: the output mapping of a schema generateUnion returns has no more *)
(* entries than there are non-null members; of several explicit mapping  *)
(* values that point at the reference of a member, the first in mapping  *)
(* order is a key of the output and the others are not, and they are no  *)
(* error.                                                                *)
C30_AtMostOneKeyPerMember ==
    /\ (pc = "returned" /\ result.schema.Discriminator # None) =>
          Cardinality(DOMAIN OutMapping) <= Len(NonNull(elements))
    /\ (pc = "returned" /\ AllMembersMapped /\ ~SharedKey) =>
          /\ result.err = NoError
          /\ \A i \in DOMAIN NonNull(elements) :
                ExplicitValues(NonNull(elements)[i].ref) \cap DOMAIN OutMapping
                   = ExplicitValues(NonNull(elements)[i].ref) \cap {KeyOf(NonNull(elements)[i])}

(* a and a2 both point at RefA; the union has been returned with RefA    *)
(* under a alone                                                         *)
C30_SecondValueDropped ==
    /\ Succeeded
    /\ elements = <<RefMember("RefA"), RefMember("RefB"), RefMember("RefC")>>
    /\ discriminator # None
    /\ Len(discriminator[1].Mapping) = 4
    /\ DOMAIN OutMapping = {"a", "b", "c"}
    /\ OutMapping["a"] = "RefA"

----------------------------------------------------------------------------
(* The pruner as its contract states it *)

(* pruneSchema has built the model and not yet been entered again *)
InRun == pc \in {"loop", "done", "error"}

(* the categories no code is generated for *)
Ungenerated == {"webhooks", "securitySchemes", "callbacks", "examples", "links"}

(* the document with these categories as another document has them *)
WithUngeneratedOf(d, other) ==
    [d EXCEPT !.webhooks = other.webhooks, !.securitySchemes = other.securitySchemes,
              !.callbacks = other.callbacks, !.examples = other.examples,
              !.links = other.links]

(* C23: once pruneSchema has built the model, webhooks, security         *)
(* schemes, callbacks, examples and links are empty before the first     *)
(* pass of the loop and in every later state of the run and of later     *)
(* runs, whatever the document refers to; before the first pass nothing  *)
(* else has changed.                                                     *)
C23_UngeneratedDroppedFirst ==
    /\ (InRun \/ (pc = "prune" /\ runs >= 1)) =>
          \A category \in Ungenerated : doc[category] = {}
    /\ (pc = "loop" /\ iteration = 0) => WithUngeneratedOf(doc, doc0) = doc0

(* the document had entries in all five categories; the loop has not     *)
(* made a pass yet and they are gone, the named components still there   *)
C23_DroppedBeforeFirstPass ==
    /\ pc = "loop"
    /\ iteration = 0
    /\ \A category \in Ungenerated : doc0[category] = {1} /\ doc[category] = {}
    /\ ComponentCount(doc) = ComponentCount(doc0)
    /\ ComponentCount(doc) > 0

(* C24: pruneSchema terminates on every document, cyclic or not: a run   *)
(* that has been entered returns; every pass of the loop that is not the *)
(* last leaves fewer named components than it found; and the loop makes  *)
(* at most one pass more than the document had named components, and at  *)
(* most one more than the cap.                                           *)
C24_PruneTerminates ==
    /\ [](InRun => /\ iteration <= ComponentCount(doc0) + 1
                   /\ iteration <= maxIterations + 1)
    /\ [][(pc = "loop" /\ pc' = "loop") => ComponentCount(doc') < ComponentCount(doc)]_vars
    /\ (pc = "prune" ~> pc \in {"done", "error", "failed"})

(* a document whose first schema refers to itself has been pruned in two *)
(* passes or more                                                        *)
C24_SelfReferencePruned ==
    /\ pc = "done"
    /\ result = Nil
    /\ iteration >= 2
    /\ Len(doc0.schemaDefs) = NSchemas
    /\ SchemaRef(1) \in RefsOfProxy(doc0.schemaDefs[1])

(* C25: whenever the set findOperationRefs returns holds a reference     *)
(* into a property of a named schema, it holds the reference of that     *)
(* schema, wherever in the document the property reference stands.       *)
C25_OwnerOfPropertyRefReachable ==
    pc = "loop" =>
        \A r \in findOperationRefs(doc) :
            r.prop # "" => ComponentRef(r.kind, r.name) \in findOperationRefs(doc)

(* the references written in the operations and in the named components  *)
(* a document holds                                                      *)
RefsWritten(d) ==
    RefsInOperations(d) \cup UNION {RefsOfComponent(d, c) : c \in PresentComponents(d)}

(* C26: every pass of the loop takes its reachable set from the model as *)
(* the passes before have left it and deletes against that set alone: a  *)
(* component the pass keeps is pointed at, or into, by a reference       *)
(* written in an operation or in a component present when the pass       *)
(* began, never only by one written in a component deleted before.       *)
C26_ReachableSetRecomputed ==
    [][(pc = "loop" /\ pc' \in {"loop", "done"}) =>
          /\ doc' = removeOrphanedComponents(doc, findOperationRefs(doc))
          /\ \A c \in PresentComponents(doc') : c \in {Owner(r) : r \in RefsWritten(doc)}]_vars

(* C27: the set findOperationRefs returns for a document with paths and  *)
(* components holds every reference written in an operation or in a      *)
(* present component, whatever was recorded before the schema that holds *)
(* it was visited: the additionalProperties and the allOf, oneOf, anyOf  *)
(* and not members of a schema whose items or additionalProperties       *)
(* reference is already in the set are in it as well.                    *)
C27_EveryWrittenRefCollected ==
    (pc = "loop" /\ doc.hasPaths /\ doc.hasComponents) =>
        RefsWritten(doc) \subseteq findOperationRefs(doc)

(* the keys of the five pruned categories, each list in its order *)
KeyLists(d) == <<d.schemas, d.parameters, d.requestBodies, d.responses, d.headers>>

(* the document with the keys of the five pruned categories as another   *)
(* document has them                                                     *)
WithKeysOf(d, other) ==
    [d EXCEPT !.schemas = other.schemas, !.parameters = other.parameters,
              !.requestBodies = other.requestBodies, !.responses = other.responses,
              !.headers = other.headers]

(* one list is the other with some elements left out *)
SubList(short, long) ==
    short = SelectSeq(long, LAMBDA key : key \in Range(short))

(* C28: a step of pruneSchema leaves the paths, the operations and the   *)
(* definition of every component as they are: but for the five cleared   *)
(* categories, the model after the step is the model before it with      *)
(* some keys of named components left out, the others in their order.    *)
C28_OnlyWholeComponentsDeleted ==
    [][(pc = "prune" \/ pc = "loop") =>
          (/\ WithKeysOf(WithUngeneratedOf(doc', doc), doc) = doc
           /\ \A i \in 1..5 : SubList(KeyLists(doc')[i], KeyLists(doc)[i])
           /\ PresentComponents(doc') \subseteq PresentComponents(doc))]_vars

(* a pass has deleted components of a document with a path-level         *)
(* parameter and kept others; paths and definitions are as at entry      *)
C28_SomeDeletedRestUntouched ==
    /\ pc = "done"
    /\ runs = 1
    /\ ComponentCount(doc) \in 1..(ComponentCount(doc0) - 1)
    /\ doc.paths = doc0.paths
    /\ doc.paths # <<>>
    /\ doc.paths[1].parameters # <<>>
    /\ doc.schemaDefs = doc0.schemaDefs

====
